---- MODULE Spec2Model ----
(***************************************************************************)
(* dns-sync: the incremental synchronisation of Aliyun DNS records into    *)
(* the MySQL table asset_sub_domain.                                       *)
(*                                                                         *)
(* The incremental main (main, incrementalSyncDomain, getFullDomain,       *)
(* printIncrementalSyncSummary) is the Go program carried by               *)
(* src/README.md from line 193 on; the database layer is                   *)
(* src/internal/database/mysql.go, the record types are                    *)
(* src/internal/models/models.go and the configuration is                  *)
(* src/internal/config/config.go.                                          *)
(*                                                                         *)
(* Spec is the incremental main. PageSpec is the page loop of              *)
(* DNSClient.GetDomainRecords (models.go from line 230 on), ReplaceSpec    *)
(* the older full-replace main (src/unnamed/part_000) and FnSpec the pure  *)
(* functions applied to inputs of their own.                               *)
(***************************************************************************)
EXTENDS Integers, Sequences, FiniteSets, TLC

VARIABLES
    table,          \* the rows of asset_sub_domain
    clk,            \* the wall clock, in ticks of half a millisecond
    passes,         \* history: the zone syncs started so far, over all executions
    cfg,            \* the configuration in config/config.yaml
    pc,             \* main's position
    zi,             \* index in cfg.Domains of the zone main's loop is at
    ppc,            \* incrementalSyncDomain's position
    aliyunRecords,  \* incrementalSyncDomain: map RecordId -> DNSRecord
    localRecords,   \* incrementalSyncDomain: map aliyun_record_id -> row
    todoR,          \* keys the range over aliyunRecords has not visited yet
    todoL,          \* keys the range over localRecords has not visited yet
    added,
    updated,
    deleted,
    passErr,        \* the error incrementalSyncDomain returns ("" is nil)
    syncStats,      \* main's []*SyncStats
    totals,         \* main's totalAdded, totalUpdated, totalDeleted
    exitStatus,     \* the exit status of the process, -1 while it runs
    ops,            \* history: the writes the current pass has issued
    table0,         \* history: the table when the current pass began
    cause,          \* history: what made the current pass return an error
    log,            \* history: per entry of syncStats, the pass behind it
    dbErrors,       \* history: the number of writes db.Exec has failed
    prev,           \* history: per domain_id, the last pass that returned
    gpc,            \* GetDomainRecords' position
    pageNumber,     \* GetDomainRecords: the page the next request asks for
    allRecords,     \* GetDomainRecords: the records accumulated so far
    reqs,           \* history: the page requests GetDomainRecords has made
    rpc,            \* the full-replace main's position in its loop body
    subDomainRecords, \* the full-replace main's []*AssetSubDomain
    todoI,          \* InsertSubDomains: the index of the next record
    txRows,         \* InsertSubDomains: the rows its open transaction holds
    syncResults,    \* the full-replace main's []*DomainSyncResult
    totalRecords,   \* the full-replace main's totalRecords
    zlog,           \* history: per entry of syncResults, what the zone's sync did
    fn,             \* which pure function has been applied ("none" before)
    fnArg,          \* the inputs of the pure functions
    fnRes           \* the result of the function applied

vars == << table, clk, passes, cfg, pc, zi, ppc, aliyunRecords,
           localRecords,
           todoR, todoL, added, updated, deleted, passErr, syncStats, totals,
           exitStatus, ops, table0, cause, log, dbErrors, prev,
           gpc, pageNumber, allRecords, reqs,
           rpc, subDomainRecords, todoI, txRows, syncResults, totalRecords,
           zlog,
           fn, fnArg, fnRes >>

\* the state of the incremental main and of the table it writes
incrementalVars ==
    << table, clk, passes, cfg, pc, zi, ppc, aliyunRecords, localRecords,
       todoR, todoL, added, updated, deleted, passErr, syncStats, totals,
       exitStatus, ops, table0, cause, log, dbErrors, prev >>

\* GetDomainRecords' locals
pagerVars == << gpc, pageNumber, allRecords, reqs >>

\* the locals of the full-replace main and of InsertSubDomains
replaceVars ==
    << rpc, subDomainRecords, todoI, txRows, syncResults, totalRecords, zlog >>

\* the pure functions' inputs and result
fnVars == << fn, fnArg, fnRes >>

\* what the incremental main does not touch
beyondIncremental == << pagerVars, replaceVars, fnVars >>

(***************************************************************************)
(* Bounds of the model.                                                    *)
(***************************************************************************)
\* the longest record list the authority returns for one zone
MaxFetch == 2
\* the number of calls of incrementalSyncDomain, over all executions
MaxPasses == 2
\* the clock ticks that may pass after the first execution starts
MaxTicks == 6
\* the wall clock, in milliseconds, when the first execution starts
StartMillis == 10
\* the number of writes that fail with an error of the database connection
MaxDbErrors == 2
\* the largest TotalCount the authority reports, in pages
MaxTotalPages == 2

(***************************************************************************)
(* Values.                                                                 *)
(***************************************************************************)
\* SQL NULL, a nil *string
NULL == "NULL"

\* time.Millisecond, in nanoseconds
Millisecond == 1000000

\* the nanoseconds of one tick of clk
TickNanos == Millisecond \div 2

\* time.Now().UnixNano() at clock c
UnixNano(c) == c * TickNanos

\* a time.Time written to a datetime column: the clock in milliseconds
Now(c) == UnixNano(c) \div Millisecond

DigitChars == << "0", "1", "2", "3", "4", "5", "6", "7", "8", "9" >>

\* strconv.FormatInt(n, 10)
RECURSIVE FormatInt(_)
FormatInt(n) ==
    IF n < 0 THEN "-" \o FormatInt(-n)
    ELSE IF n < 10 THEN DigitChars[n + 1]
    ELSE FormatInt(n \div 10) \o DigitChars[(n % 10) + 1]

\* all sequences over S of length at most n
RECURSIVE SeqsUpTo(_, _)
SeqsUpTo(S, n) ==
    IF n = 0 THEN { << >> }
    ELSE LET shorter == SeqsUpTo(S, n - 1)
         IN  shorter \cup { Append(s, x) : s \in { t \in shorter : Len(t) = n - 1 }, x \in S }

(***************************************************************************)
(* Configuration (config.go).                                              *)
(***************************************************************************)
ValidConfig ==
    [ Aliyun  |-> [ AccessKeyID |-> "ak", AccessKeySecret |-> "sk" ],
      MySQL   |-> [ Host |-> "localhost", Username |-> "root", Database |-> "jeecg-boot" ],
      Domains |-> << [ ProjectID |-> "p1", DomainID |-> "d1", Domain |-> "a.com" ],
                     [ ProjectID |-> "p1", DomainID |-> "d2", Domain |-> "b.org" ] >> ]

\* the files config/config.yaml the program is started with
ConfigFiles ==
    { ValidConfig,
      [ ValidConfig EXCEPT !.Domains = << ValidConfig.Domains[1] >> ],
      [ ValidConfig EXCEPT !.Domains = << >> ],
      [ ValidConfig EXCEPT !.Domains[2].DomainID = "" ],
      [ ValidConfig EXCEPT !.Domains[1].ProjectID = "" ],
      [ ValidConfig EXCEPT !.Domains[2].Domain = "" ] }

\* Variant of validate that does not test DomainID: C18 must not hold of
\* it.
validate_NoDomainID(c) ==
    /\ c.Aliyun.AccessKeyID # ""
    /\ c.Aliyun.AccessKeySecret # ""
    /\ c.MySQL.Host # ""
    /\ c.MySQL.Username # ""
    /\ c.MySQL.Database # ""
    /\ Len(c.Domains) # 0
    /\ \A i \in 1..Len(c.Domains) :
          ~ ( c.Domains[i].ProjectID = "" \/ c.Domains[i].Domain = "" )

\* Config.validate: TRUE when it returns nil
validate(c) ==
    /\ c.Aliyun.AccessKeyID # ""
    /\ c.Aliyun.AccessKeySecret # ""
    /\ c.MySQL.Host # ""
    /\ c.MySQL.Username # ""
    /\ c.MySQL.Database # ""
    /\ Len(c.Domains) # 0
    /\ \A i \in 1..Len(c.Domains) :
          ~ ( c.Domains[i].ProjectID = "" \/ c.Domains[i].DomainID = ""
              \/ c.Domains[i].Domain = "" )

(***************************************************************************)
(* The authority: the record lists GetDomainRecords can return.            *)
(***************************************************************************)
DNSRec(id, rr, type, value, status, domain) ==
    [ RecordId |-> id, DomainName |-> domain, RR |-> rr, Type |-> type,
      Value |-> value, Status |-> status ]

\* the records the authority may hold for a zone
RemotePool(domain) ==
    { DNSRec("r1", "www", "A", "1.1.1.1", "ENABLE", domain),
      DNSRec("r1", "www", "A", "2.2.2.2", "ENABLE", domain),
      DNSRec("r2", "@", "CNAME", "2.2.2.2", "ENABLE", domain),
      DNSRec("r2", "", "A", "2.2.2.2", "DISABLE", domain),
      DNSRec("r1", "www", "MX", "1.1.1.1", "ENABLE", domain) }

\* the results of a successful GetDomainRecords(domain)
FetchResults(domain) == SeqsUpTo(RemotePool(domain), MaxFetch)

(***************************************************************************)
(* models.go                                                               *)
(***************************************************************************)
\* Variant of ConvertToAssetSubDomain that fills AliyunRecordID from the
\* wrong field, the zone's name: C5 must not hold of it.
ConvertToAssetSubDomain_ZoneAsRecordId(d, domainID, projectID, now) ==
    LET subDomain == IF d.RR # "" /\ d.RR # "@"
                     THEN d.RR \o "." \o d.DomainName
                     ELSE d.DomainName
    IN  [ id               |-> "",
          sub_domain       |-> subDomain,
          type             |-> d.Type,
          create_time      |-> now,
          update_time      |-> now,
          dns_record       |-> NULL,
          domain_id        |-> domainID,
          source           |-> "Aliyun-DNS-Sync",
          project_id       |-> projectID,
          aliyun_record_id |-> d.DomainName ]

\* DNSRecord.ConvertToAssetSubDomain; now is time.Now(). The fields the
\* composite literal does not name keep their zero value: ID "", and the
\* pointers DNSRecord and AliyunRecordID nil.
ConvertToAssetSubDomain(d, domainID, projectID, now) ==
    LET subDomain == IF d.RR # "" /\ d.RR # "@"
                     THEN d.RR \o "." \o d.DomainName
                     ELSE d.DomainName
    IN  [ id               |-> "",
          sub_domain       |-> subDomain,
          type             |-> d.Type,
          create_time      |-> now,
          update_time      |-> now,
          dns_record       |-> NULL,
          domain_id        |-> domainID,
          source           |-> "Aliyun-DNS-Sync",
          project_id       |-> projectID,
          aliyun_record_id |-> NULL ]

(***************************************************************************)
(* mysql.go                                                                *)
(***************************************************************************)
\* MySQLClient.GetNextID at clock c
GetNextID(c) == FormatInt(UnixNano(c) \div Millisecond)

\* the rows GetLocalRecords' query selects
LocalRows(t, domainID) ==
    { r \in t : /\ r.domain_id = domainID
                /\ r.source = "Aliyun-DNS-Sync"
                /\ r.aliyun_record_id # NULL }

\* MySQLClient.GetLocalRecords: the maps it can return. Rows are scanned in
\* no stated order and a later row overwrites an earlier one with the same
\* key, so any of the rows with a key may be the one the map keeps.
GetLocalRecords(t, domainID) ==
    LET rows == LocalRows(t, domainID)
        keys == { r.aliyun_record_id : r \in rows }
    IN  { m \in [ keys -> rows ] : \A k \in keys : m[k].aliyun_record_id = k }

\* MySQLClient.InsertRecord of record at clock c: the primary key id makes
\* the INSERT fail when a row with that id exists
InsertRecord(t, record, c) ==
    LET row == [ record EXCEPT !.id = GetNextID(c) ]
    IN  IF \E r \in t : r.id = row.id
        THEN [ ok |-> FALSE, table |-> t ]
        ELSE [ ok |-> TRUE, table |-> t \cup { row } ]

\* Variant of UpdateRecord whose UPDATE finds the row by aliyun_record_id
\* instead of id: C15 must not hold of it.
UpdateRecord_ByRecordId(t, localID, aliyunRecord, now) ==
    LET subDomain == IF aliyunRecord.RR # "" /\ aliyunRecord.RR # "@"
                     THEN aliyunRecord.RR \o "." \o aliyunRecord.DomainName
                     ELSE aliyunRecord.DomainName
    IN  { IF r.aliyun_record_id = aliyunRecord.RecordId
          THEN [ r EXCEPT !.sub_domain = subDomain,
                          !.type = aliyunRecord.Type,
                          !.dns_record = aliyunRecord.Value,
                          !.update_time = now ]
          ELSE r : r \in t }

\* Variant of UpdateRecord that takes only the empty RR for the zone
\* itself: C16 must not hold of it.
UpdateRecord_NoApexMarker(t, localID, aliyunRecord, now) ==
    LET subDomain == IF aliyunRecord.RR # ""
                     THEN aliyunRecord.RR \o "." \o aliyunRecord.DomainName
                     ELSE aliyunRecord.DomainName
    IN  { IF r.id = localID
          THEN [ r EXCEPT !.sub_domain = subDomain,
                          !.type = aliyunRecord.Type,
                          !.dns_record = aliyunRecord.Value,
                          !.update_time = now ]
          ELSE r : r \in t }

\* MySQLClient.UpdateRecord: the table after its UPDATE ... WHERE id = ?
UpdateRecord(t, localID, aliyunRecord, now) ==
    LET subDomain == IF aliyunRecord.RR # "" /\ aliyunRecord.RR # "@"
                     THEN aliyunRecord.RR \o "." \o aliyunRecord.DomainName
                     ELSE aliyunRecord.DomainName
    IN  { IF r.id = localID
          THEN [ r EXCEPT !.sub_domain = subDomain,
                          !.type = aliyunRecord.Type,
                          !.dns_record = aliyunRecord.Value,
                          !.update_time = now ]
          ELSE r : r \in t }

\* Variant of DeleteRecord whose DELETE tests aliyun_record_id against the
\* local id: C3 must not hold of it.
DeleteRecord_ByRecordId(t, localID) == { r \in t : r.aliyun_record_id # localID }

\* MySQLClient.DeleteRecord: the table after its DELETE ... WHERE id = ?
DeleteRecord(t, localID) == { r \in t : r.id # localID }

\* Variant of NeedUpdate that dereferences DNSRecord only when it is set and
\* finds a row without a value up to date: C21 must not hold of it.
NeedUpdate_NilValueIsCurrent(aliyunRecord, localRecord) ==
    LET aliyunSubDomain == IF aliyunRecord.RR # "" /\ aliyunRecord.RR # "@"
                           THEN aliyunRecord.RR \o "." \o aliyunRecord.DomainName
                           ELSE aliyunRecord.DomainName
    IN  IF localRecord.sub_domain # aliyunSubDomain THEN TRUE
        ELSE IF localRecord.type # aliyunRecord.Type THEN TRUE
        ELSE IF localRecord.dns_record # NULL
                /\ localRecord.dns_record # aliyunRecord.Value THEN TRUE
        ELSE FALSE

\* NeedUpdate
NeedUpdate(aliyunRecord, localRecord) ==
    LET aliyunSubDomain == IF aliyunRecord.RR # "" /\ aliyunRecord.RR # "@"
                           THEN aliyunRecord.RR \o "." \o aliyunRecord.DomainName
                           ELSE aliyunRecord.DomainName
    IN  IF localRecord.sub_domain # aliyunSubDomain THEN TRUE
        ELSE IF localRecord.type # aliyunRecord.Type THEN TRUE
        ELSE IF localRecord.dns_record = NULL
                \/ localRecord.dns_record # aliyunRecord.Value THEN TRUE
        ELSE FALSE

(***************************************************************************)
(* The mirror before the first execution.                                  *)
(***************************************************************************)
Row(id, sub, type, value, rid, domainID, source) ==
    [ id |-> id, sub_domain |-> sub, type |-> type, create_time |-> 1,
      update_time |-> 1, dns_record |-> value, domain_id |-> domainID,
      source |-> source, project_id |-> "p1", aliyun_record_id |-> rid ]

\* rows of the first zone that earlier synchronisations may have left
MirroredRows ==
    { Row("1", "www.a.com", "A", "1.1.1.1", "r1", "d1", "Aliyun-DNS-Sync"),
      Row("2", "a.com", "CNAME", "2.2.2.2", "r2", "d1", "Aliyun-DNS-Sync") }

\* rows that are in the table whatever was synchronised before: one without
\* aliyun_record_id, one of another source, one of the second zone
OtherRows ==
    { Row("3", "old.a.com", "A", "1.1.1.1", NULL, "d1", "Aliyun-DNS-Sync"),
      Row("4", "www.a.com", "A", "9.9.9.9", "r3", "d1", "manual"),
      Row("5", "www.b.org", "A", NULL, "r1", "d2", "Aliyun-DNS-Sync") }

InitialTables == { OtherRows \cup rows : rows \in SUBSET MirroredRows }

(***************************************************************************)
(* The state after construction.                                           *)
(***************************************************************************)
NoPass == [ ran |-> FALSE ]

\* GetDomainRecords has not been called
PagerIdle ==
    /\ gpc = "idle"
    /\ pageNumber = 1
    /\ allRecords = << >>
    /\ reqs = << >>

\* the full-replace main has not reached its loop
ReplaceIdle ==
    /\ rpc = "idle"
    /\ subDomainRecords = << >>
    /\ todoI = 1
    /\ txRows = {}
    /\ syncResults = << >>
    /\ totalRecords = 0
    /\ zlog = << >>

\* no pure function has been applied
FnIdle ==
    /\ fn = "none"
    /\ fnArg = << >>
    /\ fnRes = << >>

Init ==
    /\ table \in InitialTables
    /\ clk = (StartMillis * Millisecond) \div TickNanos
    /\ passes = 0
    /\ cfg \in ConfigFiles
    /\ pc = "start"
    /\ zi = 1
    /\ ppc = "idle"
    /\ aliyunRecords = << >>
    /\ localRecords = << >>
    /\ todoR = {}
    /\ todoL = {}
    /\ added = 0
    /\ updated = 0
    /\ deleted = 0
    /\ passErr = ""
    /\ syncStats = << >>
    /\ totals = [ added |-> 0, updated |-> 0, deleted |-> 0 ]
    /\ exitStatus = -1
    /\ ops = << >>
    /\ table0 = table
    /\ cause = "none"
    /\ log = << >>
    /\ dbErrors = 0
    /\ prev = [ d \in { "d1", "d2" } |-> NoPass ]
    /\ PagerIdle
    /\ ReplaceIdle
    /\ FnIdle

passVars == << aliyunRecords, localRecords, todoR, todoL, added, updated,
               deleted, passErr, ops, table0, cause >>

mainVars == << pc, zi, syncStats, totals, exitStatus, log >>

(***************************************************************************)
(* main, up to its loop over cfg.Domains (README.md 218-263).              *)
(***************************************************************************)
\* config.LoadConfig returns an error: log.Fatalf
LoadConfigFails ==
    /\ pc = "start"
    /\ ~ validate(cfg)
    /\ pc' = "fatal"
    /\ exitStatus' = 1
    /\ UNCHANGED << table, clk, passes, cfg, zi, ppc, syncStats, totals, log,
                    dbErrors, prev >>
    /\ UNCHANGED passVars
    /\ UNCHANGED beyondIncremental

\* config.LoadConfig returns the configuration
LoadConfig ==
    /\ pc = "start"
    /\ validate(cfg)
    /\ pc' = "connect"
    /\ UNCHANGED << table, clk, passes, cfg, zi, ppc, syncStats, totals,
                    exitStatus, log, dbErrors, prev >>
    /\ UNCHANGED passVars
    /\ UNCHANGED beyondIncremental

\* NewDNSClient, TestConnection, NewMySQLClient, TestConnection or
\* CheckTableExists returns an error: log.Fatalf
ConnectionChecksFail ==
    /\ pc = "connect"
    /\ pc' = "fatal"
    /\ exitStatus' = 1
    /\ UNCHANGED << table, clk, passes, cfg, zi, ppc, syncStats, totals, log,
                    dbErrors, prev >>
    /\ UNCHANGED passVars
    /\ UNCHANGED beyondIncremental

\* all of them pass: main reaches its loop
ConnectionChecks ==
    /\ pc = "connect"
    /\ pc' = "loop"
    /\ zi' = 1
    /\ syncStats' = << >>
    /\ totals' = [ added |-> 0, updated |-> 0, deleted |-> 0 ]
    /\ UNCHANGED << table, clk, passes, cfg, ppc, exitStatus, log, dbErrors,
                    prev >>
    /\ UNCHANGED passVars
    /\ UNCHANGED beyondIncremental

(***************************************************************************)
(* incrementalSyncDomain (README.md 304-389).                              *)
(***************************************************************************)
\* the zone main's loop is at
domainMapping == cfg.Domains[zi]

InLoop ==
    /\ pc = "loop"
    /\ ppc = "idle"
    /\ zi <= Len(cfg.Domains)
    /\ passes < MaxPasses

\* Variant of IsValidRecord that tests the type alone: C14 must not hold
\* of it.
IsValidRecord_TypeOnly(record) == record.Type = "A" \/ record.Type = "CNAME"

\* step 2: the A and CNAME records whose status is ENABLE
IsValidRecord(record) ==
    (record.Type = "A" \/ record.Type = "CNAME") /\ record.Status = "ENABLE"

validRecordsOf(dnsRecords) == SelectSeq(dnsRecords, IsValidRecord)

\* step 4: the map keyed by RecordId; a later record overwrites an earlier one
RECURSIVE BuildAliyunRecords(_)
BuildAliyunRecords(validRecords) ==
    IF validRecords = << >> THEN << >>
    ELSE LET n    == Len(validRecords)
             last == validRecords[n]
             rest == BuildAliyunRecords(SubSeq(validRecords, 1, n - 1))
         IN  [ k \in (DOMAIN rest) \cup { last.RecordId } |->
                   IF k = last.RecordId THEN last ELSE rest[k] ]

\* the return of an error before step 5: counts 0, 0, 0
AbortPass(err, why) ==
    /\ ppc' = "returned"
    /\ cause' = why
    /\ passErr' = err
    /\ added' = 0
    /\ updated' = 0
    /\ deleted' = 0
    /\ aliyunRecords' = << >>
    /\ localRecords' = << >>
    /\ todoR' = {}
    /\ todoL' = {}
    /\ ops' = << >>
    /\ table0' = table
    /\ passes' = passes + 1
    /\ UNCHANGED << table, clk, cfg, dbErrors, prev >>
    /\ UNCHANGED mainVars
    /\ UNCHANGED beyondIncremental

\* step 1 fails: GetDomainRecords returns an error
FetchFails ==
    /\ InLoop
    /\ AbortPass("failed to get DNS records", "fetch")

\* Variant of ReadFails that goes on with an empty local snapshot and
\* returns the error at the end: C6 must not hold of it.
ReadFails_CarryOn ==
    /\ InLoop
    /\ \E dnsRecords \in FetchResults(domainMapping.Domain) :
          /\ aliyunRecords' = BuildAliyunRecords(validRecordsOf(dnsRecords))
          /\ todoR' = DOMAIN aliyunRecords'
    /\ localRecords' = << >>
    /\ todoL' = {}
    /\ ppc' = "sync"
    /\ cause' = "read"
    /\ passErr' = "failed to get local records"
    /\ added' = 0
    /\ updated' = 0
    /\ deleted' = 0
    /\ ops' = << >>
    /\ table0' = table
    /\ passes' = passes + 1
    /\ UNCHANGED << table, clk, cfg, dbErrors, prev >>
    /\ UNCHANGED mainVars
    /\ UNCHANGED beyondIncremental

\* step 3 fails: GetLocalRecords returns an error
ReadFails ==
    /\ InLoop
    /\ \E dnsRecords \in FetchResults(domainMapping.Domain) :
          AbortPass("failed to get local records", "read")

\* Variant of BeginSync that keeps the zone's rows when the remote snapshot
\* is empty: C11 must not hold of it.
BeginSync_KeepWhenEmpty ==
    /\ InLoop
    /\ \E dnsRecords \in FetchResults(domainMapping.Domain) :
       \E local \in GetLocalRecords(table, domainMapping.DomainID) :
          /\ aliyunRecords' = BuildAliyunRecords(validRecordsOf(dnsRecords))
          /\ localRecords' = local
          /\ todoR' = DOMAIN aliyunRecords'
          /\ todoL' = IF validRecordsOf(dnsRecords) = << >> THEN {} ELSE DOMAIN local
    /\ ppc' = "sync"
    /\ cause' = "none"
    /\ passErr' = ""
    /\ added' = 0
    /\ updated' = 0
    /\ deleted' = 0
    /\ ops' = << >>
    /\ table0' = table
    /\ passes' = passes + 1
    /\ UNCHANGED << table, clk, cfg, dbErrors, prev >>
    /\ UNCHANGED mainVars
    /\ UNCHANGED beyondIncremental

\* steps 1 to 4 and the initialisation of step 5
BeginSync ==
    /\ InLoop
    /\ \E dnsRecords \in FetchResults(domainMapping.Domain) :
       \E local \in GetLocalRecords(table, domainMapping.DomainID) :
          /\ aliyunRecords' = BuildAliyunRecords(validRecordsOf(dnsRecords))
          /\ localRecords' = local
          /\ todoR' = DOMAIN aliyunRecords'
          /\ todoL' = DOMAIN local
    /\ ppc' = "sync"
    /\ cause' = "none"
    /\ passErr' = ""
    /\ added' = 0
    /\ updated' = 0
    /\ deleted' = 0
    /\ ops' = << >>
    /\ table0' = table
    /\ passes' = passes + 1
    /\ UNCHANGED << table, clk, cfg, dbErrors, prev >>
    /\ UNCHANGED mainVars
    /\ UNCHANGED beyondIncremental

\* db.Exec returns an error (dbError) or nil
DbOutcome(dbError) ==
    /\ dbError => dbErrors < MaxDbErrors
    /\ dbErrors' = IF dbError THEN dbErrors + 1 ELSE dbErrors

\* history: the number of writes of a pass that returned an error
FailedWrites(o) == Cardinality({ i \in 1..Len(o) : ~ o[i].ok })

\* Variant of AfterWrite that leaves the loop at the first failed write: C7
\* must not hold of it.
AfterWrite_StopOnError(todo, recordId, ok) ==
    IF ok THEN todo \ { recordId } ELSE {}

\* Variant of AfterWrite that visits the key of a failed write again: C28
\* must not hold of it.
AfterWrite_RetryOnError(todo, recordId, ok) ==
    IF ok THEN todo \ { recordId } ELSE todo

\* the keys a range loop still has to visit after the write for recordId
\* returned (ok) or failed: a failure is logged and the loop goes on
AfterWrite(todo, recordId, ok) == todo \ { recordId }

Op(kind, recordId, localID, ok) ==
    [ op |-> kind, rid |-> recordId, id |-> localID, ok |-> ok ]

\* Variant of UpdateExisting that leaves the first loop when the update
\* fails: C22 must not hold of it.
UpdateExisting_BreakOnError(recordId, dbError) ==
    LET aliyunRecord == aliyunRecords[recordId]
        localRecord  == localRecords[recordId]
    IN  /\ recordId \in DOMAIN localRecords
        /\ NeedUpdate(aliyunRecord, localRecord)
        /\ DbOutcome(dbError)
        /\ IF dbError
           THEN UNCHANGED << table, updated >>
           ELSE /\ table' = UpdateRecord(table, localRecord.id, aliyunRecord, Now(clk))
                /\ updated' = updated + 1
        /\ ops' = Append(ops, Op("update", recordId, localRecord.id, ~ dbError))
        /\ todoR' = IF dbError THEN {} ELSE todoR \ { recordId }
        /\ UNCHANGED << clk, added >>

\* one iteration of "for recordId, aliyunRecord := range aliyunRecords" whose
\* record exists locally and needs an update; dbError is an error of db.Exec
UpdateExisting(recordId, dbError) ==
    LET aliyunRecord == aliyunRecords[recordId]
        localRecord  == localRecords[recordId]
    IN  /\ recordId \in DOMAIN localRecords
        /\ NeedUpdate(aliyunRecord, localRecord)
        /\ DbOutcome(dbError)
        /\ IF dbError
           THEN UNCHANGED << table, updated >>
           ELSE /\ table' = UpdateRecord(table, localRecord.id, aliyunRecord, Now(clk))
                /\ updated' = updated + 1
        /\ ops' = Append(ops, Op("update", recordId, localRecord.id, ~ dbError))
        /\ todoR' = AfterWrite(todoR, recordId, ~ dbError)
        /\ UNCHANGED << clk, added >>

\* Variant of KeepExisting that counts the record as updated: C17 must not
\* hold of it.
KeepExisting_CountsUpdate(recordId) ==
    /\ recordId \in DOMAIN localRecords
    /\ ~ NeedUpdate(aliyunRecords[recordId], localRecords[recordId])
    /\ todoR' = todoR \ { recordId }
    /\ updated' = updated + 1
    /\ UNCHANGED << table, clk, added, ops, dbErrors >>

\* one iteration whose record exists locally and needs no update
KeepExisting(recordId) ==
    /\ recordId \in DOMAIN localRecords
    /\ ~ NeedUpdate(aliyunRecords[recordId], localRecords[recordId])
    /\ todoR' = todoR \ { recordId }
    /\ UNCHANGED << table, clk, added, updated, ops, dbErrors >>

\* Variant of InsertNew that counts the record as added whether or not
\* InsertRecord returned an error: C23 must not hold of it.
InsertNew_CountsFailure(recordId, dbError, elapsed) ==
    LET newRecord == ConvertToAssetSubDomain(aliyunRecords[recordId],
                        domainMapping.DomainID, domainMapping.ProjectID, Now(clk'))
        res       == InsertRecord(table, newRecord, clk')
        ok        == ~ dbError /\ res.ok
    IN  /\ recordId \notin DOMAIN localRecords
        /\ DbOutcome(dbError)
        /\ clk + elapsed <= (StartMillis * Millisecond) \div TickNanos + MaxTicks
        /\ clk' = clk + elapsed
        /\ table' = IF ok THEN res.table ELSE table
        /\ added' = added + 1
        /\ ops' = Append(ops, Op("insert", recordId, GetNextID(clk'), ok))
        /\ todoR' = AfterWrite(todoR, recordId, ok)
        /\ UNCHANGED updated

\* one iteration whose record does not exist locally; elapsed is the time
\* that has passed since the clock was last read
InsertNew(recordId, dbError, elapsed) ==
    LET newRecord == ConvertToAssetSubDomain(aliyunRecords[recordId],
                        domainMapping.DomainID, domainMapping.ProjectID, Now(clk'))
        res       == InsertRecord(table, newRecord, clk')
        ok        == ~ dbError /\ res.ok
    IN  /\ recordId \notin DOMAIN localRecords
        /\ DbOutcome(dbError)
        /\ clk + elapsed <= (StartMillis * Millisecond) \div TickNanos + MaxTicks
        /\ clk' = clk + elapsed
        /\ table' = IF ok THEN res.table ELSE table
        /\ added' = IF ok THEN added + 1 ELSE added
        /\ ops' = Append(ops, Op("insert", recordId, GetNextID(clk'), ok))
        /\ todoR' = AfterWrite(todoR, recordId, ok)
        /\ UNCHANGED updated

\* the loop that handles additions and updates
UpsertStep ==
    /\ ppc = "sync"
    /\ \E recordId \in todoR :
          \/ \E dbError \in BOOLEAN : UpdateExisting(recordId, dbError)
          \/ KeepExisting(recordId)
          \/ \E dbError \in BOOLEAN, elapsed \in 1..2 :
                InsertNew(recordId, dbError, elapsed)
    /\ UNCHANGED << passes, cfg, ppc, aliyunRecords, localRecords, todoL, deleted,
                    passErr, table0, cause, prev >>
    /\ UNCHANGED mainVars
    /\ UNCHANGED beyondIncremental

\* Variant of DeleteStep whose test is inverted, so that it deletes the rows
\* whose id is in the remote snapshot: C24 must not hold of it.
DeleteStep_WhenPresent ==
    /\ ppc = "sync"
    /\ todoR = {}
    /\ \E recordId \in todoL :
          /\ IF recordId \in DOMAIN aliyunRecords
             THEN \E dbError \in BOOLEAN :
                     /\ DbOutcome(dbError)
                     /\ IF dbError
                        THEN UNCHANGED << table, deleted >>
                        ELSE /\ table' = DeleteRecord(table, localRecords[recordId].id)
                             /\ deleted' = deleted + 1
                     /\ ops' = Append(ops, Op("delete", recordId,
                                              localRecords[recordId].id, ~ dbError))
                     /\ todoL' = AfterWrite(todoL, recordId, ~ dbError)
             ELSE /\ todoL' = todoL \ { recordId }
                  /\ UNCHANGED << table, deleted, ops, dbErrors >>
    /\ UNCHANGED << clk, passes, cfg, ppc, aliyunRecords, localRecords, todoR,
                    added, updated, passErr, table0, cause, prev >>
    /\ UNCHANGED mainVars
    /\ UNCHANGED beyondIncremental

\* one iteration of "for recordId, localRecord := range localRecords"
DeleteStep ==
    /\ ppc = "sync"
    /\ todoR = {}
    /\ \E recordId \in todoL :
          /\ IF recordId \notin DOMAIN aliyunRecords
             THEN \E dbError \in BOOLEAN :
                     /\ DbOutcome(dbError)
                     /\ IF dbError
                        THEN UNCHANGED << table, deleted >>
                        ELSE /\ table' = DeleteRecord(table, localRecords[recordId].id)
                             /\ deleted' = deleted + 1
                     /\ ops' = Append(ops, Op("delete", recordId,
                                              localRecords[recordId].id, ~ dbError))
                     /\ todoL' = AfterWrite(todoL, recordId, ~ dbError)
             ELSE /\ todoL' = todoL \ { recordId }
                  /\ UNCHANGED << table, deleted, ops, dbErrors >>
    /\ UNCHANGED << clk, passes, cfg, ppc, aliyunRecords, localRecords, todoR,
                    added, updated, passErr, table0, cause, prev >>
    /\ UNCHANGED mainVars
    /\ UNCHANGED beyondIncremental

\* Variant of ReturnPass that returns an error when a write has failed: C8
\* must not hold of it.
ReturnPass_ErrorOnFailedWrite ==
    /\ ppc = "sync"
    /\ todoR = {}
    /\ todoL = {}
    /\ ppc' = "returned"
    /\ passErr' = IF FailedWrites(ops) > 0 THEN "failed to write records" ELSE passErr
    /\ UNCHANGED << table, clk, passes, cfg, aliyunRecords, localRecords, todoR,
                    todoL, added, updated, deleted, ops, table0, cause,
                    dbErrors, prev >>
    /\ UNCHANGED mainVars
    /\ UNCHANGED beyondIncremental

\* return added, updated, deleted, nil
ReturnPass ==
    /\ ppc = "sync"
    /\ todoR = {}
    /\ todoL = {}
    /\ ppc' = "returned"
    /\ UNCHANGED << table, clk, passes, cfg, aliyunRecords, localRecords, todoR,
                    todoL, added, updated, deleted, passErr, ops, table0, cause,
                    dbErrors, prev >>
    /\ UNCHANGED mainVars
    /\ UNCHANGED beyondIncremental

(***************************************************************************)
(* main's loop body after the call, and the summary (README.md 281-299,    *)
(* 399-432).                                                               *)
(***************************************************************************)
\* Variant of RecordStats that goes to the next zone without an entry for
\* a zone whose pass returned an error: C9 must not hold of it.
RecordStats_SkipFailedZone ==
    /\ pc = "loop"
    /\ ppc = "returned"
    /\ IF passErr # ""
       THEN UNCHANGED << syncStats, totals, log >>
       ELSE /\ syncStats' = Append(syncStats,
                   [ Domain |-> domainMapping.Domain, Added |-> added,
                     Updated |-> updated, Deleted |-> deleted, Error |-> "" ])
            /\ totals' = [ added   |-> totals.added + added,
                           updated |-> totals.updated + updated,
                           deleted |-> totals.deleted + deleted ]
            /\ log' = Append(log, [ domain |-> domainMapping.Domain,
                                    cause |-> cause, failed |-> FailedWrites(ops) ])
    /\ zi' = zi + 1
    /\ ppc' = "idle"
    /\ prev' = [ prev EXCEPT ![domainMapping.DomainID] =
                   IF cause # "none" THEN NoPass
                   ELSE [ ran |-> TRUE, R |-> aliyunRecords,
                          clean |-> FailedWrites(ops) = 0 ] ]
    /\ UNCHANGED << table, clk, passes, cfg, pc, exitStatus, dbErrors >>
    /\ UNCHANGED << aliyunRecords, localRecords, todoR, todoL, added, updated,
                    deleted, passErr, ops, table0, cause >>
    /\ UNCHANGED beyondIncremental

\* lines 281-295: the zone's SyncStats and the totals
RecordStats ==
    /\ pc = "loop"
    /\ ppc = "returned"
    /\ IF passErr # ""
       THEN /\ syncStats' = Append(syncStats,
                   [ Domain |-> domainMapping.Domain, Added |-> 0, Updated |-> 0,
                     Deleted |-> 0, Error |-> passErr ])
            /\ UNCHANGED totals
       ELSE /\ syncStats' = Append(syncStats,
                   [ Domain |-> domainMapping.Domain, Added |-> added,
                     Updated |-> updated, Deleted |-> deleted, Error |-> "" ])
            /\ totals' = [ added   |-> totals.added + added,
                           updated |-> totals.updated + updated,
                           deleted |-> totals.deleted + deleted ]
    /\ zi' = zi + 1
    /\ ppc' = "idle"
    /\ log' = Append(log, [ domain |-> domainMapping.Domain, cause |-> cause,
                            failed |-> FailedWrites(ops) ])
    /\ prev' = [ prev EXCEPT ![domainMapping.DomainID] =
                   IF cause # "none" THEN NoPass
                   ELSE [ ran |-> TRUE, R |-> aliyunRecords,
                          clean |-> FailedWrites(ops) = 0 ] ]
    /\ UNCHANGED << table, clk, passes, cfg, pc, exitStatus, dbErrors >>
    /\ UNCHANGED passVars
    /\ UNCHANGED beyondIncremental

\* Variant of failureCount that is never incremented: C10 must not hold
\* of it.
failureCount_NeverIncremented(stats) == 0

\* printIncrementalSyncSummary's failureCount
failureCount(stats) == Cardinality({ i \in 1..Len(stats) : stats[i].Error # "" })

\* printIncrementalSyncSummary, and main's return when it does not exit
PrintSummary ==
    /\ pc = "loop"
    /\ ppc = "idle"
    /\ zi > Len(cfg.Domains)
    /\ exitStatus' = IF failureCount(syncStats) > 0 THEN 1 ELSE 0
    /\ pc' = "exited"
    /\ UNCHANGED << table, clk, passes, cfg, zi, ppc, syncStats, totals, log,
                    dbErrors, prev >>
    /\ UNCHANGED passVars
    /\ UNCHANGED beyondIncremental

(***************************************************************************)
(* cron starts the program again (docs/DEPLOYMENT.md): a new process on    *)
(* the same table, at least a millisecond later.                           *)
(***************************************************************************)
Restart ==
    /\ pc \in { "exited", "fatal" }
    /\ passes < MaxPasses
    /\ clk + 2 <= (StartMillis * Millisecond) \div TickNanos + MaxTicks
    /\ clk' = clk + 2
    /\ pc' = "start"
    /\ zi' = 1
    /\ ppc' = "idle"
    /\ aliyunRecords' = << >>
    /\ localRecords' = << >>
    /\ todoR' = {}
    /\ todoL' = {}
    /\ added' = 0
    /\ updated' = 0
    /\ deleted' = 0
    /\ passErr' = ""
    /\ syncStats' = << >>
    /\ totals' = [ added |-> 0, updated |-> 0, deleted |-> 0 ]
    /\ exitStatus' = -1
    /\ ops' = << >>
    /\ table0' = table
    /\ cause' = "none"
    /\ log' = << >>
    /\ UNCHANGED << table, passes, cfg, dbErrors, prev >>
    /\ UNCHANGED beyondIncremental

Next ==
    \/ LoadConfigFails
    \/ LoadConfig
    \/ ConnectionChecksFail
    \/ ConnectionChecks
    \/ FetchFails
    \/ ReadFails
    \/ BeginSync
    \/ UpsertStep
    \/ DeleteStep
    \/ ReturnPass
    \/ RecordStats
    \/ PrintSummary
    \/ Restart

Spec == Init /\ [][Next]_vars

(***************************************************************************)
(* DNSClient.GetDomainRecords (models.go 230-299): the pages it requests.  *)
(* A record is written as its position in the zone's listing.              *)
(***************************************************************************)
\* pageSize := int64(100)
pageSize == 100

\* the numbers of records a page of the response may carry
PageLens == { 0, 1, pageSize - 1, pageSize }

\* the values of TotalCount a response may report
TotalCounts ==
    { -1, 0, 1, pageSize - 1, pageSize, pageSize + 1,
      MaxTotalPages * pageSize - 1, MaxTotalPages * pageSize,
      MaxTotalPages * pageSize + 1 }

\* the page numbers the model follows the loop to: the last page the
\* loop can ask for with the largest TotalCount
MaxPageNumber == MaxTotalPages + 1

\* response.DomainRecords.Record of page number page with n records
PageRecords(page, n) == [ i \in 1..n |-> (page - 1) * pageSize + i ]

\* the rest of the program is at rest while the pages are studied
PageInit ==
    /\ Init
    /\ table = OtherRows
    /\ cfg = ValidConfig

\* lines 232-236
CallGetDomainRecords ==
    /\ gpc = "idle"
    /\ gpc' = "loop"
    /\ pageNumber' = 1
    /\ allRecords' = << >>
    /\ reqs' = << >>
    /\ UNCHANGED << incrementalVars, replaceVars, fnVars >>

\* lines 246-254: makeRequest or json.Unmarshal returns an error
RequestFails ==
    /\ gpc = "loop"
    /\ pageNumber <= MaxPageNumber
    /\ gpc' = "failed"
    /\ allRecords' = << >>
    /\ reqs' = Append(reqs, [ page |-> pageNumber, ok |-> FALSE, n |-> 0,
                              total |-> 0, acc |-> 0 ])
    /\ UNCHANGED pageNumber
    /\ UNCHANGED << incrementalVars, replaceVars, fnVars >>

\* Variant of RequestPage without the test of pageNumber against
\* TotalCount/pageSize + 1: C12 must not hold of it.
RequestPage_NoPageBound ==
    /\ gpc = "loop"
    /\ pageNumber <= MaxPageNumber
    /\ \E n \in PageLens, total \in TotalCounts :
          /\ allRecords' = allRecords \o PageRecords(pageNumber, n)
          /\ reqs' = Append(reqs, [ page |-> pageNumber, ok |-> TRUE, n |-> n,
                                    total |-> total, acc |-> Len(allRecords') ])
          /\ IF Len(allRecords') >= total
             THEN /\ gpc' = "returned"
                  /\ UNCHANGED pageNumber
             ELSE /\ pageNumber' = pageNumber + 1
                  /\ gpc' = "loop"
    /\ UNCHANGED << incrementalVars, replaceVars, fnVars >>

\* Variant of RequestPage whose bound on the page number is
\* TotalCount/pageSize, without the page for the remainder: C27 must not
\* hold of it.
RequestPage_NoRemainderPage ==
    /\ gpc = "loop"
    /\ pageNumber <= MaxPageNumber
    /\ \E n \in PageLens, total \in TotalCounts :
          /\ allRecords' = allRecords \o PageRecords(pageNumber, n)
          /\ reqs' = Append(reqs, [ page |-> pageNumber, ok |-> TRUE, n |-> n,
                                    total |-> total, acc |-> Len(allRecords') ])
          /\ IF Len(allRecords') >= total
             THEN /\ gpc' = "returned"
                  /\ UNCHANGED pageNumber
             ELSE /\ pageNumber' = pageNumber + 1
                  /\ gpc' = IF pageNumber' > (total \div pageSize)
                            THEN "returned" ELSE "loop"
    /\ UNCHANGED << incrementalVars, replaceVars, fnVars >>

\* lines 238-295: one iteration of the loop whose request is answered with
\* n records and TotalCount total
RequestPage ==
    /\ gpc = "loop"
    /\ pageNumber <= MaxPageNumber
    /\ \E n \in PageLens, total \in TotalCounts :
          /\ allRecords' = allRecords \o PageRecords(pageNumber, n)
          /\ reqs' = Append(reqs, [ page |-> pageNumber, ok |-> TRUE, n |-> n,
                                    total |-> total, acc |-> Len(allRecords') ])
          /\ IF Len(allRecords') >= total
             THEN /\ gpc' = "returned"
                  /\ UNCHANGED pageNumber
             ELSE /\ pageNumber' = pageNumber + 1
                  /\ gpc' = IF pageNumber' > (total \div pageSize) + 1
                            THEN "returned" ELSE "loop"
    /\ UNCHANGED << incrementalVars, replaceVars, fnVars >>

PageNext ==
    \/ CallGetDomainRecords
    \/ RequestFails
    \/ RequestPage

PageSpec == PageInit /\ [][PageNext]_vars

\* GetDomainRecords is sequential code and every request returns (the
\* http.Client has a timeout), so its next step is always taken
PageFairSpec == PageSpec /\ WF_vars(PageNext)

(***************************************************************************)
(* The pure functions, applied to inputs of their own: the snapshot that   *)
(* steps 2 and 4 of incrementalSyncDomain build from a fetched list, and   *)
(* the four places that compose a record's full name.                      *)
(***************************************************************************)
\* getFullDomain (README.md 391-397)
getFullDomain(record) ==
    IF record.RR = "" \/ record.RR = "@"
    THEN record.DomainName
    ELSE record.RR \o "." \o record.DomainName

\* the values of RR and of DomainName the name is composed from
Labels == { "", "@", "www", "*", "a.b", "@@", " " }

Zones == { "a.com", "b.org", "" }

\* the keys a local snapshot may have
LocalKeySets == SUBSET { "r1", "r2" }

\* the sub_domain a row must have for NeedUpdate to find a row up to date
\* that has the record's type and value
NamesNeedUpdateAccepts(record) ==
    { name \in { record.RR \o "." \o record.DomainName, record.DomainName,
                 record.RR, "@." \o record.DomainName } :
        ~ NeedUpdate(record, [ sub_domain |-> name, type |-> record.Type,
                               dns_record |-> record.Value ]) }

\* the sub_domain UpdateRecord writes to a row
NameUpdateRecordWrites(record) ==
    LET row == Row("1", "old", "A", "0.0.0.0", "r1", "d1", "Aliyun-DNS-Sync")
    IN  { r.sub_domain : r \in UpdateRecord({ row }, row.id, record, 2) }

FnInit ==
    /\ Init
    /\ table = OtherRows
    /\ cfg = ValidConfig

\* steps 2 and 4 on a fetched list, and the keys of a local snapshot the
\* second loop of step 5 would delete
ApplySnapshot ==
    /\ fn = "none"
    /\ \E dnsRecords \in FetchResults("a.com"), localKeys \in LocalKeySets :
          /\ fnArg' = [ dnsRecords |-> dnsRecords, localKeys |-> localKeys ]
          /\ fnRes' = [ aliyunRecords |-> BuildAliyunRecords(validRecordsOf(dnsRecords)),
                        absent |-> { k \in localKeys :
                            k \notin DOMAIN BuildAliyunRecords(validRecordsOf(dnsRecords)) } ]
    /\ fn' = "snapshot"
    /\ UNCHANGED << incrementalVars, pagerVars, replaceVars >>

\* the four compositions of the name of one record
ApplyCompose ==
    /\ fn = "none"
    /\ \E label \in Labels, zone \in Zones :
          LET record == DNSRec("r1", label, "A", "1.1.1.1", "ENABLE", zone)
          IN  /\ fnArg' = [ label |-> label, zone |-> zone ]
              /\ fnRes' = [ convert |-> ConvertToAssetSubDomain(record, "d1", "p1", 1).sub_domain,
                            update  |-> NameUpdateRecordWrites(record),
                            need    |-> NamesNeedUpdateAccepts(record),
                            full    |-> getFullDomain(record) ]
    /\ fn' = "compose"
    /\ UNCHANGED << incrementalVars, pagerVars, replaceVars >>

\* the remote records and the local rows NeedUpdate is applied to
DriftRecords ==
    { DNSRec("r1", label, type, value, "ENABLE", "a.com") :
        label \in { "www", "@", "" }, type \in { "A", "CNAME" },
        value \in { "1.1.1.1", "2.2.2.2" } }

DriftRows ==
    { Row("1", sub, type, value, "r1", "d1", "Aliyun-DNS-Sync") :
        sub \in { "www.a.com", "a.com" }, type \in { "A", "CNAME" },
        value \in { "1.1.1.1", "2.2.2.2", NULL } }

\* the branch of the first loop of step 5 for a record that exists locally:
\* NeedUpdate, and UpdateRecord when it returns true
ApplyNeedUpdate ==
    /\ fn = "none"
    /\ \E aliyunRecord \in DriftRecords, localRecord \in DriftRows :
          /\ fnArg' = [ aliyunRecord |-> aliyunRecord, localRecord |-> localRecord ]
          /\ fnRes' = [ need  |-> NeedUpdate(aliyunRecord, localRecord),
                        wrote |-> IF NeedUpdate(aliyunRecord, localRecord)
                                  THEN << "update", localRecord.id >>
                                  ELSE << >>,
                        table |-> IF NeedUpdate(aliyunRecord, localRecord)
                                  THEN UpdateRecord({ localRecord }, localRecord.id,
                                                    aliyunRecord, 2)
                                  ELSE { localRecord } ]
    /\ fn' = "needUpdate"
    /\ UNCHANGED << incrementalVars, pagerVars, replaceVars >>

FnNext ==
    \/ ApplySnapshot
    \/ ApplyCompose
    \/ ApplyNeedUpdate

FnSpec == FnInit /\ [][FnNext]_vars

(***************************************************************************)
(* The full-replace main (unnamed/part_000) with ClearDomainRecords and    *)
(* InsertSubDomains (mysql.go 63-151). Its lines 22-61 are those of the    *)
(* incremental main: LoadConfig and the connection checks above.           *)
(***************************************************************************)
\* MySQLClient.ClearDomainRecords: the table after its DELETE
ClearDomainRecords(t, domainID) ==
    { r \in t : ~ ( r.domain_id = domainID /\ r.source = "Aliyun-DNS-Sync" ) }

\* lines 95-108: the A and CNAME records, converted
RECURSIVE ConvertAll(_, _, _, _)
ConvertAll(dnsRecords, domainID, projectID, now) ==
    IF dnsRecords = << >> THEN << >>
    ELSE LET n         == Len(dnsRecords)
             dnsRecord == dnsRecords[n]
             rest      == ConvertAll(SubSeq(dnsRecords, 1, n - 1), domainID, projectID, now)
         IN  IF dnsRecord.Type = "A" \/ dnsRecord.Type = "CNAME"
             THEN Append(rest, ConvertToAssetSubDomain(dnsRecord, domainID, projectID, now))
             ELSE rest

\* the full-replace main is at the top of its loop, with a zone left
AtZone ==
    /\ InLoop
    /\ rpc = "idle"

DomainSyncResult(success, recordCount, error) ==
    [ Domain |-> domainMapping.Domain, Success |-> success,
      RecordCount |-> recordCount, Error |-> error ]

\* history: what the zone's sync did
ZoneLog(kind) ==
    [ domainID |-> domainMapping.DomainID, kind |-> kind,
      records |-> subDomainRecords, before |-> table0 ]

\* syncResults = append(syncResults, result); continue
NextZone(result, kind) ==
    /\ syncResults' = Append(syncResults, result)
    /\ zlog' = Append(zlog, ZoneLog(kind))
    /\ zi' = zi + 1
    /\ rpc' = "idle"

\* lines 77-83: GetDomainRecords returns an error
ReplaceFetchFails ==
    /\ AtZone
    /\ syncResults' = Append(syncResults,
            DomainSyncResult(FALSE, 0, "Failed to get DNS records"))
    /\ zlog' = Append(zlog, [ domainID |-> domainMapping.DomainID,
                              kind |-> "fetchFailed", records |-> << >>,
                              before |-> table ])
    /\ zi' = zi + 1
    /\ passes' = passes + 1
    /\ table0' = table
    /\ subDomainRecords' = << >>
    /\ UNCHANGED << table, clk, cfg, pc, ppc, aliyunRecords, localRecords, todoR,
                    todoL, added, updated, deleted, passErr, syncStats, totals,
                    exitStatus, ops, cause, log, dbErrors, prev >>
    /\ UNCHANGED << rpc, todoI, txRows, totalRecords >>
    /\ UNCHANGED << pagerVars, fnVars >>

\* lines 85-91: GetDomainRecords returns no record
ReplaceFetchEmpty ==
    /\ AtZone
    /\ << >> \in FetchResults(domainMapping.Domain)
    /\ syncResults' = Append(syncResults, DomainSyncResult(TRUE, 0, ""))
    /\ zlog' = Append(zlog, [ domainID |-> domainMapping.DomainID,
                              kind |-> "empty", records |-> << >>,
                              before |-> table ])
    /\ zi' = zi + 1
    /\ passes' = passes + 1
    /\ table0' = table
    /\ subDomainRecords' = << >>
    /\ UNCHANGED << table, clk, cfg, pc, ppc, aliyunRecords, localRecords, todoR,
                    todoL, added, updated, deleted, passErr, syncStats, totals,
                    exitStatus, ops, cause, log, dbErrors, prev >>
    /\ UNCHANGED << rpc, todoI, txRows, totalRecords >>
    /\ UNCHANGED << pagerVars, fnVars >>

\* lines 93-117: the records are converted and ClearDomainRecords is
\* called; its error (dbError) is logged as a warning only
ConvertAndClear ==
    /\ AtZone
    /\ \E dnsRecords \in FetchResults(domainMapping.Domain) \ { << >> } :
          subDomainRecords' = ConvertAll(dnsRecords, domainMapping.DomainID,
                                         domainMapping.ProjectID, Now(clk))
    /\ \E dbError \in BOOLEAN :
          /\ DbOutcome(dbError)
          /\ table' = IF dbError THEN table
                      ELSE ClearDomainRecords(table, domainMapping.DomainID)
    /\ rpc' = "insert"
    /\ passes' = passes + 1
    /\ table0' = table
    /\ UNCHANGED << clk, cfg, pc, zi, ppc, aliyunRecords, localRecords, todoR,
                    todoL, added, updated, deleted, passErr, syncStats, totals,
                    exitStatus, ops, cause, log, prev >>
    /\ UNCHANGED << todoI, txRows, syncResults, totalRecords, zlog >>
    /\ UNCHANGED << pagerVars, fnVars >>

\* what the steps of InsertSubDomains leave alone
insertFrame ==
    << passes, cfg, pc, zi, ppc, aliyunRecords, localRecords, todoR, todoL,
       added, updated, deleted, passErr, syncStats, totals, exitStatus, ops,
       table0, cause, log, prev, syncResults, totalRecords, zlog, pagerVars,
       fnVars >>

\* InsertSubDomains, lines 80-82: no record, return nil
InsertNoRecord ==
    /\ rpc = "insert"
    /\ subDomainRecords = << >>
    /\ rpc' = "inserted"
    /\ UNCHANGED << table, clk, dbErrors, subDomainRecords, todoI, txRows >>
    /\ UNCHANGED insertFrame

\* lines 85-101: db.Begin or tx.Prepare returns an error
BeginOrPrepareFails ==
    /\ rpc = "insert"
    /\ subDomainRecords # << >>
    /\ DbOutcome(TRUE)
    /\ rpc' = "insertFailed"
    /\ UNCHANGED << table, clk, subDomainRecords, todoI, txRows >>
    /\ UNCHANGED insertFrame

\* lines 85-104: the transaction is open and the statement prepared
BeginTx ==
    /\ rpc = "insert"
    /\ subDomainRecords # << >>
    /\ rpc' = "tx"
    /\ todoI' = 1
    /\ txRows' = {}
    /\ UNCHANGED << table, clk, dbErrors, subDomainRecords >>
    /\ UNCHANGED insertFrame

\* lines 105-142: one iteration of the loop over records. INSERT IGNORE
\* drops, without an error, a row whose id the table has; an error of
\* stmt.Exec (dbError) is logged and the loop goes on
InsertIgnore ==
    /\ rpc = "tx"
    /\ todoI <= Len(subDomainRecords)
    /\ \E elapsed \in 0..1 :
          /\ clk + elapsed <= (StartMillis * Millisecond) \div TickNanos + MaxTicks
          /\ clk' = clk + elapsed
    /\ subDomainRecords' = [ subDomainRecords EXCEPT ![todoI].id = GetNextID(clk') ]
    /\ \E dbError \in BOOLEAN :
          /\ DbOutcome(dbError)
          /\ txRows' = IF \/ dbError
                          \/ \E r \in table \cup txRows : r.id = GetNextID(clk')
                       THEN txRows
                       ELSE txRows \cup { subDomainRecords'[todoI] }
    /\ todoI' = todoI + 1
    /\ UNCHANGED << table, rpc >>
    /\ UNCHANGED insertFrame

\* lines 144-150: tx.Commit; on an error (dbError) the deferred Rollback
\* drops the rows of the transaction
Commit ==
    /\ rpc = "tx"
    /\ todoI > Len(subDomainRecords)
    /\ \E dbError \in BOOLEAN :
          /\ DbOutcome(dbError)
          /\ table' = IF dbError THEN table ELSE table \cup txRows
          /\ rpc' = IF dbError THEN "insertFailed" ELSE "inserted"
    /\ txRows' = {}
    /\ UNCHANGED << clk, subDomainRecords, todoI >>
    /\ UNCHANGED insertFrame

\* what the end of the loop body leaves alone
resultFrame ==
    << table, clk, passes, cfg, pc, ppc, aliyunRecords, localRecords, todoR,
       todoL, added, updated, deleted, passErr, syncStats, totals, exitStatus,
       ops, table0, cause, log, dbErrors, prev, subDomainRecords, todoI,
       txRows, pagerVars, fnVars >>

\* lines 120-125: InsertSubDomains has returned an error
ReplaceFailed ==
    /\ pc = "loop"
    /\ rpc = "insertFailed"
    /\ NextZone(DomainSyncResult(FALSE, 0, "Failed to insert records"), "failed")
    /\ UNCHANGED totalRecords
    /\ UNCHANGED resultFrame

\* lines 127-139: InsertSubDomains has returned nil
ReplaceSucceeded ==
    /\ pc = "loop"
    /\ rpc = "inserted"
    /\ NextZone(DomainSyncResult(TRUE, Len(subDomainRecords), ""), "replaced")
    /\ totalRecords' = totalRecords + Len(subDomainRecords)
    /\ UNCHANGED resultFrame

\* printSyncSummary's failureCount
syncFailureCount(results) ==
    Cardinality({ i \in 1..Len(results) : ~ results[i].Success })

\* lines 143-145 and printSyncSummary
PrintSyncSummary ==
    /\ pc = "loop"
    /\ rpc = "idle"
    /\ zi > Len(cfg.Domains)
    /\ exitStatus' = IF syncFailureCount(syncResults) > 0 THEN 1 ELSE 0
    /\ pc' = "exited"
    /\ UNCHANGED << table, clk, passes, cfg, zi, ppc, syncStats, totals, log,
                    dbErrors, prev >>
    /\ UNCHANGED passVars
    /\ UNCHANGED beyondIncremental

ReplaceNext ==
    \/ LoadConfigFails
    \/ LoadConfig
    \/ ConnectionChecksFail
    \/ ConnectionChecks
    \/ ReplaceFetchFails
    \/ ReplaceFetchEmpty
    \/ ConvertAndClear
    \/ InsertNoRecord
    \/ BeginOrPrepareFails
    \/ BeginTx
    \/ InsertIgnore
    \/ Commit
    \/ ReplaceFailed
    \/ ReplaceSucceeded
    \/ PrintSyncSummary

ReplaceSpec == Init /\ [][ReplaceNext]_vars

(***************************************************************************)
(* Vocabulary of the properties.                                           *)
(***************************************************************************)
\* compose_name of the specification
ComposeName(label, zone) ==
    IF label = "" \/ label = "@" THEN zone ELSE label \o "." \o zone

\* the mirror of a zone: its rows that carry the provenance tag
Mirror(t, domainID) ==
    { r \in t : r.domain_id = domainID /\ r.source = "Aliyun-DNS-Sync" }

\* the rows of the mirror of a zone that back-reference the remote id
RowsOf(t, domainID, id) ==
    { r \in Mirror(t, domainID) : r.aliyun_record_id = id }

\* the rows without the provenance tag, of another zone or without a
\* remote back-reference
Foreign(t, domainID) ==
    { r \in t : \/ r.source # "Aliyun-DNS-Sync"
                \/ r.domain_id # domainID
                \/ r.aliyun_record_id = NULL }

\* the rows without the provenance tag or of another zone
Outside(t, domainID) ==
    { r \in t : r.source # "Aliyun-DNS-Sync" \/ r.domain_id # domainID }

\* incrementalSyncDomain has returned and main has not yet used the result
Returned == pc = "loop" /\ ppc = "returned"

\* ... with a nil error and no failed write
ReturnedClean == Returned /\ passErr = "" /\ FailedWrites(ops) = 0

\* ... and the previous pass for the zone did so too, with the same remote
\* snapshot
SecondCleanPass ==
    /\ ReturnedClean
    /\ prev[domainMapping.DomainID].ran
    /\ prev[domainMapping.DomainID].clean
    /\ prev[domainMapping.DomainID].R = aliyunRecords

\* the writes of the current pass, as (kind, RecordId) pairs
Attempted == { << ops[i].op, ops[i].rid >> : i \in 1..Len(ops) }

\* the indices in ops of the writes of a kind that returned nil
Succeeded(kind) == { i \in 1..Len(ops) : ops[i].op = kind /\ ops[i].ok }

\* the ids of the rows the current pass has inserted
InsertedIds == { ops[i].id : i \in Succeeded("insert") }

\* the writes the diff of the two snapshots calls for
DiffOps ==
    LET R == DOMAIN aliyunRecords
        L == DOMAIN localRecords
    IN  { << "insert", id >> : id \in R \ L }
        \cup { << "update", id >> :
                 id \in { k \in R \cap L : NeedUpdate(aliyunRecords[k], localRecords[k]) } }
        \cup { << "delete", id >> : id \in L \ R }

\* the ids of the local snapshot that are not in the remote snapshot
Dropped == (DOMAIN localRecords) \ (DOMAIN aliyunRecords)

\* row r carries the composed name, the type and the value of record d
Matches(r, d) ==
    /\ r.sub_domain = ComposeName(d.RR, d.DomainName)
    /\ r.type = d.Type
    /\ r.dns_record = d.Value

\* no two rows of the mirror of a zone share a remote back-reference
UniqueBackRefs(t) ==
    \A r1, r2 \in t :
        ( /\ r1.source = "Aliyun-DNS-Sync"
          /\ r2.source = "Aliyun-DNS-Sync"
          /\ r1.domain_id = r2.domain_id
          /\ r1.aliyun_record_id # NULL
          /\ r1.aliyun_record_id = r2.aliyun_record_id ) => r1 = r2

\* the pass got both snapshots, the remote one empty and the local one not
EmptyRemote ==
    /\ cause = "none"
    /\ DOMAIN aliyunRecords = {}
    /\ DOMAIN localRecords # {}

\* GetDomainRecords has returned, with the records or with an error
PagerDone == gpc \in { "returned", "failed" }

\* the records of a fetched list that are A or CNAME and ENABLE
SupportedActive(dnsRecords) ==
    { dnsRecords[i] : i \in { j \in 1..Len(dnsRecords) :
        /\ dnsRecords[j].Type \in { "A", "CNAME" }
        /\ dnsRecords[j].Status = "ENABLE" } }

\* the RecordIds of a fetched list
FetchedIds(dnsRecords) == { dnsRecords[i].RecordId : i \in 1..Len(dnsRecords) }

\* the ids of the rows the current pass has updated or deleted
TargetIds == { ops[i].id : i \in Succeeded("update") \cup Succeeded("delete") }

\* row r is row r0 but for sub_domain, type, dns_record and update_time
SameButMirroredFields(r, r0) ==
    [ r EXCEPT !.sub_domain = r0.sub_domain, !.type = r0.type,
               !.dns_record = r0.dns_record, !.update_time = r0.update_time ] = r0

\* the ids of both snapshots whose row NeedUpdate finds out of date
Drifted ==
    { k \in (DOMAIN aliyunRecords) \cap (DOMAIN localRecords) :
        NeedUpdate(aliyunRecords[k], localRecords[k]) }

\* configuration c has no domain mapping, or one that lacks project_id,
\* domain_id or domain
LacksMappingField(c) ==
    \/ c.Domains = << >>
    \/ \E i \in 1..Len(c.Domains) :
          \/ c.Domains[i].ProjectID = ""
          \/ c.Domains[i].DomainID = ""
          \/ c.Domains[i].Domain = ""

\* row r without its primary key
Keyless(r) == [ r EXCEPT !.id = "" ]

\* the rows of table t that are records of the batch recs, as inserted
BatchRows(t, recs) == { r \in t : \E k \in 1..Len(recs) : r = recs[k] }

\* the fetch or the read of a zone of this execution has failed
SomeZoneFailed == \E i \in 1..Len(log) : log[i].cause \in { "fetch", "read" }

(***************************************************************************)
(* C1. Idempotence: when a pass for a zone returns without a failed write, *)
(* and the previous pass for that zone also did so with the same remote    *)
(* snapshot, the pass reports 0 added, 0 updated, 0 deleted and has issued *)
(* no write.                                                               *)
(***************************************************************************)
C1_Idempotent ==
    SecondCleanPass =>
        added = 0 /\ updated = 0 /\ deleted = 0 /\ ops = << >>

(***************************************************************************)
(* C2. Convergence, presence: after a pass without a failed write, every   *)
(* id of the remote snapshot has exactly one row in the zone's mirror that *)
(* back-references it, and that row's sub_domain, type and dns_record are  *)
(* the composed name, the type and the value of the remote record.         *)
(***************************************************************************)
C2_ConvergedPresence ==
    ReturnedClean =>
        \A id \in DOMAIN aliyunRecords :
            /\ Cardinality(RowsOf(table, domainMapping.DomainID, id)) = 1
            /\ \A r \in RowsOf(table, domainMapping.DomainID, id) :
                  Matches(r, aliyunRecords[id])

(***************************************************************************)
(* C3. Convergence, absence: after a pass without a failed write, no row   *)
(* of the zone's mirror back-references an id that was in the local        *)
(* snapshot and is not in the remote snapshot, and deleted is the number   *)
(* of those ids.                                                           *)
(***************************************************************************)
C3_ConvergedAbsence ==
    ReturnedClean =>
        /\ \A id \in Dropped : RowsOf(table, domainMapping.DomainID, id) = {}
        /\ deleted = Cardinality(Dropped)

\* C3: a pass without a failed write has returned, and an id with a row in
\* the mirror was not in its remote snapshot
C3_Witness ==
    /\ ReturnedClean
    /\ Dropped # {}
    /\ \E id \in Dropped : RowsOf(table0, domainMapping.DomainID, id) # {}

(***************************************************************************)
(* C4. Isolation: during and after a pass for a zone, the rows without the *)
(* provenance tag, of another zone or without a remote back-reference are  *)
(* the same set of rows, with the same contents, as when the pass began.   *)
(***************************************************************************)
C4_Isolation ==
    (pc = "loop" /\ ppc # "idle") =>
        Foreign(table, domainMapping.DomainID) = Foreign(table0, domainMapping.DomainID)

\* What holds of C4: no such row is updated or deleted, and the rows without
\* the tag or of another zone are the same set. The rows that break C4 are
\* rows the pass itself has inserted, which carry no remote back-reference.
C4_NoForeignRowTouched ==
    (pc = "loop" /\ ppc # "idle") =>
        /\ Foreign(table0, domainMapping.DomainID) \subseteq table
        /\ Outside(table, domainMapping.DomainID) = Outside(table0, domainMapping.DomainID)
        /\ \A r \in Foreign(table, domainMapping.DomainID) \ table0 :
              r.id \in InsertedIds

(***************************************************************************)
(* C5. Back-reference uniqueness: in every state, no two rows of the       *)
(* mirror of a zone carry the same non-null remote back-reference.         *)
(***************************************************************************)
C5_UniqueBackRefs == UniqueBackRefs(table)

\* C5: after a failed write, the last pass has created a row for a RecordId
\* that the previous pass for the zone had in its remote snapshot as well
C5_Witness ==
    /\ Returned
    /\ passes = MaxPasses
    /\ prev[domainMapping.DomainID].ran
    /\ \E i \in Succeeded("insert") :
          ops[i].rid \in DOMAIN prev[domainMapping.DomainID].R
    /\ dbErrors > 0

(***************************************************************************)
(* C6. Fail-closed: a pass whose remote fetch or local read failed returns *)
(* at once, with an error and the counts 0, 0, 0; it has issued no write   *)
(* and has left the table as it was.                                       *)
(***************************************************************************)
C6_FailClosed ==
    (pc = "loop" /\ ppc # "idle" /\ cause # "none") =>
        /\ ppc = "returned"
        /\ passErr # ""
        /\ added = 0 /\ updated = 0 /\ deleted = 0
        /\ ops = << >>
        /\ table = table0

\* C6: the local read of a zone with mirrored rows has failed
C6_Witness ==
    /\ Returned
    /\ cause = "read"
    /\ LocalRows(table, domainMapping.DomainID) # {}

(***************************************************************************)
(* C7. Partial-failure isolation: a pass that got both snapshots returns   *)
(* nil having attempted exactly the writes the diff calls for, each once,  *)
(* whichever of them failed; the attempted writes that did not succeed are *)
(* exactly the failed ones.                                                *)
(***************************************************************************)
C7_PartialFailure ==
    (Returned /\ cause = "none") =>
        /\ passErr = ""
        /\ Attempted = DiffOps
        /\ Len(ops) = Cardinality(DiffOps)
        /\ Len(ops) - (added + updated + deleted) = FailedWrites(ops)

\* C7: the first write of a pass failed and the second succeeded
C7_Witness ==
    /\ Returned
    /\ FailedWrites(ops) = 1
    /\ Len(ops) = 2
    /\ ~ ops[1].ok
    /\ ops[2].ok

(***************************************************************************)
(* C8. A zone's entry in the summary carries an error exactly when its     *)
(* remote fetch or its local read failed, and a pass returns an error      *)
(* exactly then; failed writes leave the zone a success.                   *)
(***************************************************************************)
C8_ZoneFailedIffFetchOrRead ==
    /\ Len(log) = Len(syncStats)
    /\ \A i \in 1..Len(syncStats) :
          (syncStats[i].Error # "") <=> (log[i].cause \in { "fetch", "read" })
    /\ Returned => ((passErr # "") <=> (cause \in { "fetch", "read" }))

\* C8: the summary of a run in which a write of the first zone failed and
\* the local read of the second zone failed
C8_Witness ==
    /\ pc = "exited"
    /\ Len(syncStats) = 2
    /\ log[1].failed > 0
    /\ syncStats[1].Error = ""
    /\ log[2].cause = "read"
    /\ syncStats[2].Error # ""

(***************************************************************************)
(* C9. Main's loop handles the zones one at a time in configuration order: *)
(* the entries of the summary so far are those of the first zi - 1 zones,  *)
(* each from a pass for that zone, and the summary is printed only when    *)
(* every zone has its entry, whether or not earlier zones failed.          *)
(***************************************************************************)
C9_EveryZoneInOrder ==
    (pc \in { "loop", "exited" }) =>
        /\ Len(syncStats) = zi - 1
        /\ Len(log) = zi - 1
        /\ zi - 1 <= Len(cfg.Domains)
        /\ \A i \in 1..Len(syncStats) :
              /\ syncStats[i].Domain = cfg.Domains[i].Domain
              /\ log[i].domain = cfg.Domains[i].Domain
        /\ (pc = "exited") => (Len(syncStats) = Len(cfg.Domains))

\* C9: the summary of a run whose first zone failed and whose second zone
\* got a row
C9_Witness ==
    /\ pc = "exited"
    /\ Len(syncStats) = 2
    /\ syncStats[1].Error # ""
    /\ syncStats[2].Error = ""
    /\ syncStats[2].Added > 0

(***************************************************************************)
(* C10 as stated: however the process ends, its exit status is non-zero    *)
(* exactly when the fetch or the read of at least one zone failed.         *)
(***************************************************************************)
C10_ExitStatus_AsStated ==
    (pc \in { "exited", "fatal" }) => ((exitStatus # 0) <=> SomeZoneFailed)

(***************************************************************************)
(* C10 as amended: an execution that passed the configuration and          *)
(* connection checks exits with a non-zero status exactly when the fetch   *)
(* or the read of at least one zone failed; one that did not pass them     *)
(* exits with status 1 before any pass.                                    *)
(***************************************************************************)
C10_ExitStatus ==
    /\ (pc = "exited") => ((exitStatus # 0) <=> SomeZoneFailed)
    /\ (pc = "fatal") => (exitStatus = 1 /\ log = << >>)
    /\ (pc \notin { "exited", "fatal" }) => (exitStatus = -1)

\* C10: an execution has ended with status 0 although a write had failed
C10_Witness ==
    /\ pc = "exited"
    /\ exitStatus = 0
    /\ \E i \in 1..Len(log) : log[i].failed > 0

C12_Terminates == <>PagerDone

\* C12: GetDomainRecords has returned after a request for every page up to
\* TotalCount/pageSize + 1, having got an empty page and fewer records
\* than the total reported
C12_Witness ==
    /\ gpc = "returned"
    /\ Len(reqs) = MaxTotalPages + 1
    /\ \E i \in 1..Len(reqs) : reqs[i].n = 0
    /\ Len(allRecords) < reqs[Len(reqs)].total

(***************************************************************************)
(* C13. The stop condition as stated: no page is requested after a page    *)
(* that carried fewer records than the page size, nor after the records    *)
(* accumulated reached the total reported.                                 *)
(***************************************************************************)
C13_StopsOnShortPageOrTotal ==
    \A i \in 1..(Len(reqs) - 1) :
        /\ reqs[i].n >= pageSize
        /\ reqs[i].acc < reqs[i].total

\* What holds of C13: a page is requested after another exactly when the
\* records accumulated are fewer than the total that page reported and the
\* next page number is at most that total / pageSize + 1.
C13_StopsOnTotalOrPageBound ==
    /\ \A i \in 1..(Len(reqs) - 1) :
          /\ reqs[i].ok
          /\ reqs[i].acc < reqs[i].total
          /\ reqs[i].page + 1 <= (reqs[i].total \div pageSize) + 1
          /\ reqs[i + 1].page = reqs[i].page + 1
    /\ (gpc = "returned") =>
          LET last == reqs[Len(reqs)]
          IN  \/ last.acc >= last.total
              \/ last.page + 1 > (last.total \div pageSize) + 1

(***************************************************************************)
(* C14. The remote snapshot built from a fetched list has as keys the      *)
(* RecordIds of its records that are A or CNAME and ENABLE, each key with  *)
(* such a record of that id, and all of them when their ids differ; the    *)
(* other records are left out, so that a local key whose record is still   *)
(* fetched, disabled or of another type, is among the keys absent from the *)
(* snapshot, the ones the pass deletes.                                    *)
(***************************************************************************)
C14_SnapshotIsSupportedActive ==
    (fn = "snapshot") =>
        LET R     == fnRes.aliyunRecords
            valid == SupportedActive(fnArg.dnsRecords)
        IN  /\ DOMAIN R = { d.RecordId : d \in valid }
            /\ \A k \in DOMAIN R : R[k] \in valid /\ R[k].RecordId = k
            /\ (Cardinality(valid) = Cardinality(DOMAIN R)) =>
                   { R[k] : k \in DOMAIN R } = valid
            /\ \A k \in fnArg.localKeys :
                   (k \notin { d.RecordId : d \in valid }) <=> (k \in fnRes.absent)

\* C14: the list fetched has r1 as an active A record and r2 disabled; r2,
\* a key of the local snapshot, is absent from the remote snapshot
C14_Witness ==
    /\ fn = "snapshot"
    /\ FetchedIds(fnArg.dnsRecords) = { "r1", "r2" }
    /\ DOMAIN fnRes.aliyunRecords = { "r1" }
    /\ "r2" \in fnArg.localKeys
    /\ "r2" \in fnRes.absent

(***************************************************************************)
(* C16. For every label and zone, ConvertToAssetSubDomain, UpdateRecord,   *)
(* NeedUpdate and getFullDomain compose the same name: the zone when the   *)
(* label is empty or "@", label.zone otherwise.                            *)
(***************************************************************************)
C16_OneComposition ==
    (fn = "compose") =>
        LET name == ComposeName(fnArg.label, fnArg.zone)
        IN  /\ fnRes.convert = name
            /\ fnRes.update = { name }
            /\ fnRes.need = { name }
            /\ fnRes.full = name

\* C16: the name of the label "@" has been composed, and that of a label
\* that contains "@"
C16_Witness ==
    /\ fn = "compose"
    /\ fnArg.label \in { "@", "@@" }
    /\ fnArg.zone = "a.com"
    /\ fnRes.full \in { "a.com", "@@.a.com" }

(***************************************************************************)
(* C15. A row a pass has updated is the row the table had under that id    *)
(* when the pass began but for its sub_domain, type, dns_record and        *)
(* update_time: id, create_time, aliyun_record_id, domain_id, project_id   *)
(* and source are kept; and the rows the pass has neither updated nor      *)
(* deleted are in the table as they were.                                  *)
(***************************************************************************)
C15_UpdateFrame ==
    (pc = "loop" /\ ppc # "idle") =>
        /\ \A i \in Succeeded("update") :
              /\ Cardinality({ r \in table : r.id = ops[i].id }) = 1
              /\ \A r \in table, r0 \in table0 :
                    (r.id = ops[i].id /\ r0.id = ops[i].id) =>
                        /\ SameButMirroredFields(r, r0)
                        /\ Matches(r, aliyunRecords[ops[i].rid])
        /\ \A r0 \in table0 : (r0.id \notin TargetIds) => (r0 \in table)

\* C15: a pass has updated the value of one row, at a later time than the
\* row had, and has deleted another
C15_Witness ==
    /\ Returned
    /\ updated = 1
    /\ deleted = 1
    /\ \E i \in Succeeded("update") :
          \E r \in table, r0 \in table0 :
             /\ r.id = ops[i].id
             /\ r0.id = ops[i].id
             /\ r.dns_record # r0.dns_record
             /\ r.update_time # r0.update_time

(***************************************************************************)
(* C17. In a pass where no write fails the counts are the sizes of the     *)
(* sets of the diff: added the ids of R not in L, updated the ids of both  *)
(* whose name, type or value differ, deleted the ids of L not in R.        *)
(***************************************************************************)
C17_CountsAreDiffSizes ==
    ReturnedClean =>
        /\ added = Cardinality((DOMAIN aliyunRecords) \ (DOMAIN localRecords))
        /\ updated = Cardinality(Drifted)
        /\ deleted = Cardinality(Dropped)

\* C17: a pass on an empty local snapshot with a remote snapshot of
\* MaxFetch records has created MaxFetch rows
C17_Witness ==
    /\ ReturnedClean
    /\ DOMAIN localRecords = {}
    /\ Cardinality(DOMAIN aliyunRecords) = MaxFetch
    /\ added = MaxFetch
    /\ updated = 0
    /\ deleted = 0

(***************************************************************************)
(* C18. With a configuration in which a domain mapping lacks project_id,   *)
(* domain_id or domain, or that has no mapping, the program goes from its  *)
(* start to log.Fatalf only: no zone is fetched, no pass is made and the   *)
(* table is never written.                                                 *)
(***************************************************************************)
C18_ConfigErrorIsFatal ==
    LacksMappingField(cfg) =>
        /\ pc \in { "start", "fatal" }
        /\ ppc = "idle"
        /\ passes = 0
        /\ ops = << >>
        /\ log = << >>
        /\ syncStats = << >>
        /\ table = table0
        /\ table \in InitialTables
        /\ (pc = "fatal") => (exitStatus = 1)
        /\ (pc = "start") => (exitStatus = -1)

\* C18: the program has ended at log.Fatalf with a configuration whose
\* second mapping lacks a field, the first being complete
C18_Witness ==
    /\ pc = "fatal"
    /\ Len(cfg.Domains) = 2
    /\ cfg.Domains[1] = ValidConfig.Domains[1]
    /\ cfg.Domains[2] # ValidConfig.Domains[2]
    /\ LocalRows(table, "d1") # {}

C20_FailedBatchWritesNothing ==
    \A i \in 1..Len(zlog) :
        /\ (zlog[i].kind = "failed") => (BatchRows(table, zlog[i].records) = {})
        /\ { r \in zlog[i].before : r.source # "Aliyun-DNS-Sync" } \subseteq table

(***************************************************************************)
(* C21. Update detection: NeedUpdate of a remote record and a local row is *)
(* true exactly when the row's sub_domain is not the composed name of the  *)
(* record, or its type is not the record's type, or its dns_record is null *)
(* or is not the record's value; for an id on both sides an update is      *)
(* written exactly when NeedUpdate is true, and the row is left as it was  *)
(* otherwise.                                                              *)
(***************************************************************************)
C21_UpdateIffDiffers ==
    (fn = "needUpdate") =>
        LET r == fnArg.aliyunRecord
            l == fnArg.localRecord
            differs == \/ l.sub_domain # ComposeName(r.RR, r.DomainName)
                       \/ l.type # r.Type
                       \/ l.dns_record = NULL
                       \/ l.dns_record # r.Value
        IN  /\ fnRes.need <=> differs
            /\ (fnRes.wrote = << "update", l.id >>) <=> differs
            /\ (fnRes.wrote = << >>) <=> ~ differs
            /\ ~ differs => fnRes.table = { l }
            /\ differs => \A row \in fnRes.table : Matches(row, r)

\* C21: NeedUpdate was applied to a row that has the record's name and type
\* and no value, and the update was written
C21_Witness ==
    /\ fn = "needUpdate"
    /\ fnArg.localRecord.sub_domain =
          ComposeName(fnArg.aliyunRecord.RR, fnArg.aliyunRecord.DomainName)
    /\ fnArg.localRecord.type = fnArg.aliyunRecord.Type
    /\ fnArg.localRecord.dns_record = NULL
    /\ fnRes.wrote # << >>

\* the writes of the current pass that returned an error
FailedOps == { << ops[i].op, ops[i].rid >> : i \in { j \in 1..Len(ops) : ~ ops[j].ok } }

\* row r without its timestamps, and without its key when the pass made it
Shape(r, oldIds) ==
    [ r EXCEPT !.create_time = 0, !.update_time = 0,
               !.id = IF r.id \in oldIds THEN r.id ELSE "" ]

\* the table a pass leaves, timestamps and new keys aside, as a function of
\* the table t0 it began with, the remote snapshot R, the local snapshot L
\* and the writes that fail
TableAfter(t0, R, L, failing, domainID, projectID) ==
    LET gone    == { L[k].id : k \in { j \in (DOMAIN L) \ (DOMAIN R) :
                                         << "delete", j >> \notin failing } }
        changed == { k \in (DOMAIN R) \cap (DOMAIN L) :
                       /\ NeedUpdate(R[k], L[k])
                       /\ << "update", k >> \notin failing }
        made    == { k \in (DOMAIN R) \ (DOMAIN L) : << "insert", k >> \notin failing }
        After(r) == IF \E k \in changed : L[k].id = r.id
                    THEN LET k == CHOOSE j \in changed : L[j].id = r.id
                         IN  [ r EXCEPT !.sub_domain = ComposeName(R[k].RR, R[k].DomainName),
                                        !.type = R[k].Type,
                                        !.dns_record = R[k].Value ]
                    ELSE r
    IN  { Shape(After(r), { x.id : x \in t0 }) : r \in { x \in t0 : x.id \notin gone } }
        \cup { Shape(ConvertToAssetSubDomain(R[k], domainID, projectID, 0), {}) :
                 k \in made }

\* the counts a pass returns, as a function of the snapshots and the writes
\* that fail
CountsAfter(R, L, failing) ==
    [ added   |-> Cardinality({ k \in (DOMAIN R) \ (DOMAIN L) :
                                  << "insert", k >> \notin failing }),
      updated |-> Cardinality({ k \in (DOMAIN R) \cap (DOMAIN L) :
                                  /\ NeedUpdate(R[k], L[k])
                                  /\ << "update", k >> \notin failing }),
      deleted |-> Cardinality({ k \in (DOMAIN L) \ (DOMAIN R) :
                                  << "delete", k >> \notin failing }) ]

(***************************************************************************)
(* C22. Order independence: the table a pass leaves, generated keys and    *)
(* timestamps aside, and the counts it returns are a function of the table *)
(* it began with, the two snapshots and the set of writes that fail, so    *)
(* they are the same in whatever order the two loops visit the ids.        *)
(***************************************************************************)
C22_OrderIndependent ==
    (Returned /\ cause = "none") =>
        /\ { Shape(r, { x.id : x \in table0 }) : r \in table } =
              TableAfter(table0, aliyunRecords, localRecords, FailedOps,
                         domainMapping.DomainID, domainMapping.ProjectID)
        /\ Cardinality(table) =
              Cardinality(table0) + added - deleted
        /\ [ added |-> added, updated |-> updated, deleted |-> deleted ] =
              CountsAfter(aliyunRecords, localRecords, FailedOps)

\* C22: a pass has visited r2 before r1, and of its two writes the one for
\* r2 failed
C22_Witness ==
    /\ Returned
    /\ Len(ops) >= 2
    /\ ops[1].rid = "r2" /\ ~ ops[1].ok
    /\ ops[2].rid = "r1" /\ ops[2].ok

(***************************************************************************)
(* C23. Counts reflect only successful writes: while and after a pass runs *)
(* its loops, added, updated and deleted are the numbers of inserts,       *)
(* updates and deletes that returned without an error; a failed write      *)
(* adds to none of them and the pass still returns a nil error.            *)
(***************************************************************************)
C23_CountsSucceededWrites ==
    (pc = "loop" /\ ppc \in { "sync", "returned" } /\ cause = "none") =>
        /\ added = Cardinality(Succeeded("insert"))
        /\ updated = Cardinality(Succeeded("update"))
        /\ deleted = Cardinality(Succeeded("delete"))
        /\ added + updated + deleted + FailedWrites(ops) = Len(ops)
        /\ passErr = ""

\* C23: a pass has returned after an insert that failed and a delete that
\* succeeded
C23_Witness ==
    /\ Returned
    /\ \E i \in 1..Len(ops) : ops[i].op = "insert" /\ ~ ops[i].ok
    /\ Succeeded("delete") # {}
    /\ added = 0
    /\ deleted > 0

(***************************************************************************)
(* C24. Deletion only for upstream absence: a pass issues a delete only    *)
(* for a row of its local snapshot whose back-reference is not a key of    *)
(* the filtered remote snapshot, and every row of the zone's mirror whose  *)
(* back-reference is a key of the remote snapshot is still in the table,   *)
(* under the same id and back-reference.                                   *)
(***************************************************************************)
C24_DeleteOnlyAbsent ==
    (pc = "loop" /\ ppc \in { "sync", "returned" } /\ cause = "none") =>
        /\ \A i \in 1..Len(ops) :
              ops[i].op = "delete" =>
                 /\ ops[i].rid \notin DOMAIN aliyunRecords
                 /\ ops[i].rid \in DOMAIN localRecords
                 /\ ops[i].id = localRecords[ops[i].rid].id
                 /\ \A r0 \in table0 :
                       r0.id = ops[i].id => r0.aliyun_record_id \notin DOMAIN aliyunRecords
        /\ \A r0 \in Mirror(table0, domainMapping.DomainID) :
              r0.aliyun_record_id \in DOMAIN aliyunRecords =>
                 \E r \in table : /\ r.id = r0.id
                                  /\ r.aliyun_record_id = r0.aliyun_record_id

\* C24: a pass has deleted the row of one id and kept the row of another
\* id, which is in its remote snapshot
C24_Witness ==
    /\ Returned
    /\ Succeeded("delete") # {}
    /\ \E k \in (DOMAIN localRecords) \cap (DOMAIN aliyunRecords) :
          RowsOf(table, domainMapping.DomainID, k) # {}

(***************************************************************************)
(* C25. Fresh primary keys: the key GetNextID generates for a row a pass   *)
(* creates is the id of no row the table held when the pass began and of   *)
(* no row the pass has created before, so that no create fails on a key    *)
(* collision.                                                              *)
(***************************************************************************)
C25_FreshKeys ==
    (pc = "loop" /\ ppc \in { "sync", "returned" } /\ cause = "none") =>
        \A i \in 1..Len(ops) :
            ops[i].op = "insert" =>
               /\ \A r0 \in table0 : r0.id # ops[i].id
               /\ \A j \in Succeeded("insert") : j < i => ops[j].id # ops[i].id

\* a pass has returned without a failed write, after a pass for the zone
\* that had the same remote snapshot and a failed write
CleanPassAfterFailedWrites ==
    /\ ReturnedClean
    /\ prev[domainMapping.DomainID].ran
    /\ ~ prev[domainMapping.DomainID].clean
    /\ prev[domainMapping.DomainID].R = aliyunRecords

(***************************************************************************)
(* C26. Eventual convergence across passes: when a pass had failed writes  *)
(* and a later pass for the zone, with the same remote snapshot, has none, *)
(* then after the later pass every id of the remote snapshot has exactly   *)
(* one row in the zone's mirror that back-references it and carries its    *)
(* name, type and value, and no row back-references an id of the local     *)
(* snapshot that the remote snapshot lacks.                                *)
(***************************************************************************)
C26_ConvergesAfterRetry ==
    CleanPassAfterFailedWrites =>
        /\ \A id \in DOMAIN aliyunRecords :
              /\ Cardinality(RowsOf(table, domainMapping.DomainID, id)) = 1
              /\ \A r \in RowsOf(table, domainMapping.DomainID, id) :
                    Matches(r, aliyunRecords[id])
        /\ \A id \in Dropped : RowsOf(table, domainMapping.DomainID, id) = {}

\* What holds of C26: when every id of the remote snapshot had a row in the
\* local snapshot, so that the later pass had only updates and deletes to
\* retry, the mirror has converged. The ids that break C26 are those the
\* later pass had to create: their rows carry no remote back-reference.
C26_RetriedUpdatesAndDeletesConverge ==
    ( /\ CleanPassAfterFailedWrites
      /\ (DOMAIN aliyunRecords) \subseteq (DOMAIN localRecords) ) =>
        /\ \A id \in DOMAIN aliyunRecords :
              /\ Cardinality(RowsOf(table, domainMapping.DomainID, id)) = 1
              /\ \A r \in RowsOf(table, domainMapping.DomainID, id) :
                    Matches(r, aliyunRecords[id])
        /\ \A id \in Dropped : RowsOf(table, domainMapping.DomainID, id) = {}

\* the number of records on page number page of a zone of total records,
\* served in full pages
FullPage(total, page) ==
    LET rest == total - (page - 1) * pageSize
    IN  IF rest <= 0 THEN 0 ELSE IF rest >= pageSize THEN pageSize ELSE rest

\* every request so far was answered, with the true TotalCount total and
\* the full page of the zone's listing
ServedTruly(total) ==
    /\ reqs # << >>
    /\ \A i \in 1..Len(reqs) :
          /\ reqs[i].ok
          /\ reqs[i].total = total
          /\ reqs[i].n = FullPage(total, reqs[i].page)

(***************************************************************************)
(* C27. Pagination completeness: when every request is answered with the   *)
(* true TotalCount and the full page of the zone's listing,                *)
(* GetDomainRecords requests the pages 1, 2, ... in turn, as many as the   *)
(* zone has and one for an empty zone, and returns the records of the      *)
(* listing, each once and in order; this for every TotalCount, among them  *)
(* 0, the multiples of the page size and their neighbours.                 *)
(***************************************************************************)
C27_EveryRecordOnce ==
    \A total \in { t \in TotalCounts : t >= 0 } :
        ServedTruly(total) =>
            /\ \A i \in 1..Len(reqs) : reqs[i].page = i
            /\ gpc # "failed"
            /\ gpc = "returned" =>
                  /\ allRecords = [ i \in 1..total |-> i ]
                  /\ Len(reqs) = IF total = 0 THEN 1
                                 ELSE (total + pageSize - 1) \div pageSize

\* C27: GetDomainRecords has returned the records of a zone that has one
\* record more than MaxTotalPages full pages
C27_Witness ==
    /\ gpc = "returned"
    /\ ServedTruly(MaxTotalPages * pageSize + 1)
    /\ Len(reqs) = MaxTotalPages + 1
    /\ Len(allRecords) = MaxTotalPages * pageSize + 1

(***************************************************************************)
(* C28. At most one write per record per pass: among the writes of a pass, *)
(* failed ones included, no two are for the same remote id, so that no id  *)
(* is created or updated and also deleted, and no two updates or deletes   *)
(* are on the same row.                                                    *)
(***************************************************************************)
C28_OneWritePerRecord ==
    (pc = "loop" /\ ppc \in { "sync", "returned" }) =>
        \A i, j \in 1..Len(ops) :
            i # j =>
               /\ ops[i].rid # ops[j].rid
               /\ ( /\ ops[i].op \in { "update", "delete" }
                    /\ ops[j].op \in { "update", "delete" } ) => ops[i].id # ops[j].id

\* C28: a pass has returned after an update for one id and a delete for
\* another
C28_Witness ==
    /\ Returned
    /\ \E i, j \in 1..Len(ops) :
          /\ ops[i].op = "update"
          /\ ops[j].op = "delete"

====
